---- MODULE Spec2Model ----
(***************************************************************************)
(* Model of crates/kornia-io/src/jpeg.rs: the ImageDecoder and             *)
(* ImageEncoder wrappers around a turbojpeg handle kept in an              *)
(* Arc<Mutex<..>>.  Callers (threads) hold references to handles and run   *)
(* new / default / read_header / decode / encode / set_quality.  Every     *)
(* `lock().unwrap().native(..)` statement of the source is split into the  *)
(* lock acquisition and the native call that ends with the guard's drop.   *)
(***************************************************************************)
EXTENDS Integers, Sequences, FiniteSets, TLC

\* ---- bounds of the model
NumThreads == 2
NumHandles == 2
MaxDim == 1

\* ---- constants of the program
Channels == 3
DefaultQuality == 95
FixtureWidth == 258
FixtureHeight == 195

Threads == 1..NumThreads
Handles == 1..NumHandles
NoThread == 0
NoHandle == 0

VARIABLES
    kind,        \* kind[h]: "none" (not constructed), "dec" or "enc"
    holder,      \* holder[h]: the thread that holds the Mutex of h, or NoThread
    poisoned,    \* poisoned[h]: the Mutex of h is poisoned
    quality,     \* quality[h]: quality setting kept by the native compressor
    lastHeader,  \* lastHeader[h]: header kept in the native decompressor state
    pc,          \* pc[t]: position of caller t
    op,          \* op[t]: the call caller t is running (or ran last)
    image_size,  \* image_size[t]: local `image_size` of decode
    pixels,      \* pixels[t]: local `pixels` of decode
    result       \* result[t]: what the last finished call of t returned

vars == <<kind, holder, poisoned, quality, lastHeader, pc, op, image_size, pixels, result>>

\* ---------------------------------------------------------------------
\* Values
\* ---------------------------------------------------------------------

\* ImageSize { width, height }
ImageSize(w, h) == [width |-> w, height |-> h]

NoSize == ImageSize(0, 0)

NoPixels == [len |-> 0, fill |-> "none"]

\* Image<u8, 3>: its size, its channel count and its backing buffer
NoImage == [width |-> 0, height |-> 0, channels |-> 0, len |-> 0, fill |-> "none", contiguous |-> TRUE]

\* the three variants of JpegError
JpegErrorKinds == {"TurboJpegError", "ImageDataNotContiguous", "ImageCreationError"}

NoResult == [tag |-> "None", err |-> "", size |-> NoSize, image |-> NoImage, bytes |-> <<>>, h |-> NoHandle]

OkUnit == [NoResult EXCEPT !.tag = "Ok"]

OkSize(s) == [NoResult EXCEPT !.tag = "Ok", !.size = s]

OkImage(img) == [NoResult EXCEPT !.tag = "Ok", !.image = img]

OkBytes(b) == [NoResult EXCEPT !.tag = "Ok", !.bytes = b]

OkHandle(h) == [NoResult EXCEPT !.tag = "Ok", !.h = h]

Err(k) == [NoResult EXCEPT !.tag = "Err", !.err = k]

Panic == [NoResult EXCEPT !.tag = "Panic"]

\* mutant: a native error converted into the wrong variant
FromTurboJpegAsImageError == Err("ImageCreationError")

\* #[from] turbojpeg::Error: what `?` makes of a native error
FromTurboJpeg == Err("TurboJpegError")

\* #[from] ImageError
FromImageError == Err("ImageCreationError")

NoOp == [name |-> "none", h |-> NoHandle, data |-> <<>>, image |-> NoImage, q |-> 0, src |-> NoImage]

\* ---------------------------------------------------------------------
\* The native codec (turbojpeg), on a byte-level picture of a JPEG stream:
\*   <<SOI, height hi, height lo, width hi, width lo, quality, EOI>>
\* ---------------------------------------------------------------------

JpegStream(w, h, q) == <<216, h \div 256, h % 256, w \div 256, w % 256, q, 217>>

\* Decompressor::read_header: parses the frame header only
NativeReadHeader(data) ==
    IF Len(data) >= 5 /\ data[1] = 216
    THEN [ok |-> TRUE, width |-> data[4] * 256 + data[5], height |-> data[2] * 256 + data[3]]
    ELSE [ok |-> FALSE, width |-> 0, height |-> 0]

\* Decompressor::decompress(jpeg_data, buf): parses the header of jpeg_data
\* itself, checks the output descriptor against it, then fills the buffer
NativeDecompress(data, buf) ==
    LET hdr == NativeReadHeader(data) IN
    IF ~hdr.ok THEN [ok |-> FALSE, fill |-> "zero"]
    ELSE IF buf.width # hdr.width \/ buf.height # hdr.height \/ buf.pitch < Channels * hdr.width
         THEN [ok |-> FALSE, fill |-> "zero"]
    ELSE IF Len(data) = 7 /\ data[7] = 217 THEN [ok |-> TRUE, fill |-> "full"]
    ELSE [ok |-> FALSE, fill |-> "partial"]

\* Compressor::compress_to_vec(buf) at the handle's quality setting
NativeCompress(buf, q) == [ok |-> TRUE, bytes |-> JpegStream(buf.width, buf.height, q)]

\* Compressor::set_quality: the library accepts 1..100
NativeSetQuality(q) == q \in 1..100

\* ---------------------------------------------------------------------
\* The image model (kornia_image)
\* ---------------------------------------------------------------------

\* Image::new(size, data): the validating factory
ImageNew(size, px) ==
    IF px.len = size.width * size.height * Channels
    THEN [ok |-> TRUE, image |-> [width |-> size.width, height |-> size.height, channels |-> Channels,
                                 len |-> px.len, fill |-> px.fill, contiguous |-> TRUE]]
    ELSE [ok |-> FALSE, image |-> NoImage]

\* ---------------------------------------------------------------------
\* Inputs
\* ---------------------------------------------------------------------

TestDims == ((1..MaxDim) \X (1..MaxDim)) \cup {<<FixtureWidth, FixtureHeight>>}

\* prefix lengths: cut inside the payload, the whole stream
TruncLens == {6, 7}

JpegInputs ==
    {<<>>}
    \cup {SubSeq(JpegStream(d[1], d[2], DefaultQuality), 1, n) : d \in TestDims, n \in TruncLens}

QualityInputs == {0, 50}

EncodeImages ==
    {[width |-> d[1], height |-> d[2], channels |-> Channels, len |-> d[1] * d[2] * Channels,
      fill |-> "full", contiguous |-> c] : d \in TestDims, c \in BOOLEAN}

\* ---------------------------------------------------------------------
\* Init
\* ---------------------------------------------------------------------

Init ==
    /\ kind = [h \in Handles |-> "none"]
    /\ holder = [h \in Handles |-> NoThread]
    /\ poisoned = [h \in Handles |-> FALSE]
    /\ quality = [h \in Handles |-> 0]
    /\ lastHeader = [h \in Handles |-> NoSize]
    /\ pc = [t \in Threads |-> "idle"]
    /\ op = [t \in Threads |-> NoOp]
    /\ image_size = [t \in Threads |-> NoSize]
    /\ pixels = [t \in Threads |-> NoPixels]
    /\ result = [t \in Threads |-> NoResult]

\* ---------------------------------------------------------------------
\* The Mutex around the native handle
\* ---------------------------------------------------------------------

\* mutant: lock() never waits for the guard
LockAlwaysFree(h) == TRUE

\* mutant: one lock shared by all handles
LockSharedByAll(h) == \A g \in Handles : holder[g] = NoThread

\* Mutex::lock returns only when no other thread holds the guard
LockFree(h) == holder[h] = NoThread

\* the pcs at which a caller is inside a native call, holding the guard
NativePcs == {"rh_native", "dec_native", "enc_native", "sq_native"}

\* the pcs at which a caller waits in Mutex::lock
LockPcs == {"rh_lock", "dec_lock", "enc_lock", "sq_lock"}

InNative(t, h) == pc[t] \in NativePcs /\ op[t].h = h

\* mutant: the poison of the Mutex is ignored (into_inner instead of unwrap)
UnwrapIgnoresPoison(h) == FALSE

\* lock().unwrap(): lock() is Err(PoisonError) on a poisoned Mutex, and unwrap panics
UnwrapPanics(h) == poisoned[h]

\* mutant: the guard outlives the statement
GuardKept(t) == t

\* the holder once the statement `..lock().unwrap().native(..)` has ended: the
\* temporary MutexGuard is dropped there
GuardDropped(t) == NoThread

\* ---------------------------------------------------------------------
\* Construction
\* ---------------------------------------------------------------------

FreeHandles == {h \in Handles : kind[h] = "none"}

FreshHandle == CHOOSE h \in FreeHandles : \A g \in FreeHandles : h <= g

\* mutant: Default::default hands the error on
DefaultReturnsErr(e) == e

\* what Default::default makes of Err(e) from Self::new(): panic!
DefaultOnErr(e) == Panic

\* ImageDecoder::new / ImageEncoder::new: turbojpeg::{De,C}ompressor::new()?
\* and the handle wrapped in Arc<Mutex<..>>
New(t, k, nativeOk) ==
    /\ pc[t] = "idle"
    /\ op' = [op EXCEPT ![t] = [NoOp EXCEPT !.name = "new_" \o k]]
    /\ IF nativeOk
       THEN /\ FreeHandles # {}
            /\ kind' = [kind EXCEPT ![FreshHandle] = k]
            /\ quality' = [quality EXCEPT ![FreshHandle] = IF k = "enc" THEN DefaultQuality ELSE 0]
            /\ result' = [result EXCEPT ![t] = OkHandle(FreshHandle)]
       ELSE /\ result' = [result EXCEPT ![t] = FromTurboJpeg]
            /\ UNCHANGED <<kind, quality>>
    /\ UNCHANGED <<holder, poisoned, lastHeader, pc, image_size, pixels>>

\* Default::default for ImageDecoder / ImageEncoder: match Self::new()
Default(t, k, nativeOk) ==
    /\ pc[t] = "idle"
    /\ op' = [op EXCEPT ![t] = [NoOp EXCEPT !.name = "default_" \o k]]
    /\ IF nativeOk
       THEN /\ FreeHandles # {}
            /\ kind' = [kind EXCEPT ![FreshHandle] = k]
            /\ quality' = [quality EXCEPT ![FreshHandle] = IF k = "enc" THEN DefaultQuality ELSE 0]
            /\ result' = [result EXCEPT ![t] = OkHandle(FreshHandle)]
       ELSE /\ result' = [result EXCEPT ![t] = DefaultOnErr(FromTurboJpeg)]
            /\ UNCHANGED <<kind, quality>>
    /\ UNCHANGED <<holder, poisoned, lastHeader, pc, image_size, pixels>>

\* ---------------------------------------------------------------------
\* ImageDecoder::read_header, also the first statement of decode
\* ---------------------------------------------------------------------

CallReadHeader(t, h, data) ==
    /\ pc[t] = "idle"
    /\ kind[h] = "dec"
    /\ pc' = [pc EXCEPT ![t] = "rh_lock"]
    /\ op' = [op EXCEPT ![t] = [NoOp EXCEPT !.name = "read_header", !.h = h, !.data = data]]
    /\ result' = [result EXCEPT ![t] = NoResult]
    /\ UNCHANGED <<kind, holder, poisoned, quality, lastHeader, image_size, pixels>>

\* decode(jpeg_data); src is the image the caller encoded into jpeg_data, if any
CallDecode(t, h, data, src) ==
    /\ pc[t] = "idle"
    /\ kind[h] = "dec"
    /\ pc' = [pc EXCEPT ![t] = "rh_lock"]
    /\ op' = [op EXCEPT ![t] = [NoOp EXCEPT !.name = "decode", !.h = h, !.data = data, !.src = src]]
    /\ result' = [result EXCEPT ![t] = NoResult]
    /\ UNCHANGED <<kind, holder, poisoned, quality, lastHeader, image_size, pixels>>

\* the caller decodes the bytes its own encode just returned
CallDecodeEncoded(t, h) ==
    /\ op[t].name = "encode"
    /\ result[t].tag = "Ok"
    /\ CallDecode(t, h, result[t].bytes, op[t].image)

\* self.decompressor.lock().unwrap()
RhLock(t) ==
    /\ pc[t] = "rh_lock"
    /\ LockFree(op[t].h)
    /\ IF UnwrapPanics(op[t].h)
       THEN /\ pc' = [pc EXCEPT ![t] = "idle"]
            /\ result' = [result EXCEPT ![t] = Panic]
            /\ UNCHANGED holder
       ELSE /\ pc' = [pc EXCEPT ![t] = "rh_native"]
            /\ holder' = [holder EXCEPT ![op[t].h] = t]
            /\ UNCHANGED result
    /\ UNCHANGED <<kind, poisoned, quality, lastHeader, op, image_size, pixels>>

\* mutant: width and height of the header exchanged
HeaderSizeSwapped(hdr) == ImageSize(hdr.height, hdr.width)

\* Ok(ImageSize { width: header.width, height: header.height })
HeaderSize(hdr) == ImageSize(hdr.width, hdr.height)

\* .read_header(jpeg_data)? ; the guard is dropped at the end of the statement
RhNative(t) ==
    /\ pc[t] = "rh_native"
    /\ LET h == op[t].h
           hdr == NativeReadHeader(op[t].data)
       IN /\ holder' = [holder EXCEPT ![h] = GuardDropped(t)]
          /\ lastHeader' = [lastHeader EXCEPT ![h] = ImageSize(hdr.width, hdr.height)]
          /\ IF ~hdr.ok
             THEN /\ pc' = [pc EXCEPT ![t] = "idle"]
                  /\ result' = [result EXCEPT ![t] = FromTurboJpeg]
                  /\ UNCHANGED image_size
             ELSE IF op[t].name = "read_header"
             THEN /\ pc' = [pc EXCEPT ![t] = "idle"]
                  /\ result' = [result EXCEPT ![t] = OkSize(HeaderSize(hdr))]
                  /\ UNCHANGED image_size
             ELSE /\ pc' = [pc EXCEPT ![t] = "dec_lock"]
                  /\ image_size' = [image_size EXCEPT ![t] = HeaderSize(hdr)]
                  /\ UNCHANGED result
    /\ UNCHANGED <<kind, poisoned, quality, op, pixels>>

\* ---------------------------------------------------------------------
\* ImageDecoder::decode after the header
\* ---------------------------------------------------------------------

\* mutant: the buffer is allocated for one channel
AllocPixelsOneChannel(size) == [len |-> size.height * size.width, fill |-> "zero"]

\* vec![0u8; image_size.height * image_size.width * 3]
AllocPixels(size) == [len |-> size.height * size.width * Channels, fill |-> "zero"]

\* mutant: width and height exchanged in the descriptor
ImageDescriptorSwapped(w, h, len) == [width |-> h, pitch |-> Channels * h, height |-> w, len |-> len]

\* turbojpeg::Image { pixels, width, pitch, height, format: RGB }
ImageDescriptor(w, h, len) == [width |-> w, pitch |-> Channels * w, height |-> h, len |-> len]

\* mutant: the size is taken from the header the handle parsed last
SizeOfHandle(t) == lastHeader[op[t].h]

\* the image_size that decode uses after the header: its own local
SizeOfCall(t) == image_size[t]

\* let mut pixels = vec![..]; self.decompressor.lock().unwrap()
DecLock(t) ==
    /\ pc[t] = "dec_lock"
    /\ LockFree(op[t].h)
    /\ IF UnwrapPanics(op[t].h)
       THEN /\ pc' = [pc EXCEPT ![t] = "idle"]
            /\ result' = [result EXCEPT ![t] = Panic]
            /\ image_size' = [image_size EXCEPT ![t] = NoSize]
            /\ UNCHANGED <<holder, pixels>>
       ELSE /\ pc' = [pc EXCEPT ![t] = "dec_native"]
            /\ holder' = [holder EXCEPT ![op[t].h] = t]
            /\ pixels' = [pixels EXCEPT ![t] = AllocPixels(SizeOfCall(t))]
            /\ UNCHANGED <<result, image_size>>
    /\ UNCHANGED <<kind, poisoned, quality, lastHeader, op>>

\* mutant: the native result of decompress is not looked at
DecodeReturnIgnoresError(dec, size, px) ==
    LET img == ImageNew(size, [px EXCEPT !.fill = dec.fill])
    IN IF img.ok THEN OkImage(img.image) ELSE FromImageError

\* what decode returns once decompress has run: `?` on the native result,
\* then Ok(Image::new(image_size, pixels)?)
DecodeReturn(dec, size, px) ==
    IF ~dec.ok THEN FromTurboJpeg
    ELSE LET img == ImageNew(size, [px EXCEPT !.fill = dec.fill])
         IN IF img.ok THEN OkImage(img.image) ELSE FromImageError

\* .decompress(jpeg_data, buf)? ; guard dropped; Ok(Image::new(image_size, pixels)?)
DecNative(t) ==
    /\ pc[t] = "dec_native"
    /\ LET h == op[t].h
           buf == ImageDescriptor(SizeOfCall(t).width, SizeOfCall(t).height, pixels[t].len)
           dec == NativeDecompress(op[t].data, buf)
           hdr == NativeReadHeader(op[t].data)
       IN /\ holder' = [holder EXCEPT ![h] = GuardDropped(t)]
          /\ lastHeader' = [lastHeader EXCEPT ![h] = ImageSize(hdr.width, hdr.height)]
          /\ result' = [result EXCEPT ![t] = DecodeReturn(dec, SizeOfCall(t), pixels[t])]
    /\ pc' = [pc EXCEPT ![t] = "idle"]
    /\ image_size' = [image_size EXCEPT ![t] = NoSize]
    /\ pixels' = [pixels EXCEPT ![t] = NoPixels]
    /\ UNCHANGED <<kind, poisoned, quality, op>>

\* ---------------------------------------------------------------------
\* ImageEncoder::encode
\* ---------------------------------------------------------------------

\* let image_data = image.as_slice(): the backing buffer, whatever its layout
AsSlice(image) == [len |-> image.len, fill |-> image.fill]

CallEncode(t, h, image) ==
    /\ pc[t] = "idle"
    /\ kind[h] = "enc"
    /\ pc' = [pc EXCEPT ![t] = "enc_lock"]
    /\ op' = [op EXCEPT ![t] = [NoOp EXCEPT !.name = "encode", !.h = h, !.image = image]]
    /\ result' = [result EXCEPT ![t] = NoResult]
    /\ UNCHANGED <<kind, holder, poisoned, quality, lastHeader, image_size, pixels>>

\* the caller encodes the image its own decode just returned
CallEncodeDecoded(t, h) ==
    /\ op[t].name = "decode"
    /\ result[t].tag = "Ok"
    /\ CallEncode(t, h, result[t].image)

\* self.compressor.lock().unwrap()
EncLock(t) ==
    /\ pc[t] = "enc_lock"
    /\ LockFree(op[t].h)
    /\ IF UnwrapPanics(op[t].h)
       THEN /\ pc' = [pc EXCEPT ![t] = "idle"]
            /\ result' = [result EXCEPT ![t] = Panic]
            /\ UNCHANGED holder
       ELSE /\ pc' = [pc EXCEPT ![t] = "enc_native"]
            /\ holder' = [holder EXCEPT ![op[t].h] = t]
            /\ UNCHANGED result
    /\ UNCHANGED <<kind, poisoned, quality, lastHeader, op, image_size, pixels>>

\* mutant: compressing resets the quality setting
QualityResetByCompress(q) == DefaultQuality

\* the quality setting the compressor is left with by compress_to_vec
QualityAfterCompress(q) == q

\* Ok(..compress_to_vec(buf)?)
EncNative(t) ==
    /\ pc[t] = "enc_native"
    /\ LET h == op[t].h
           img == op[t].image
           buf == ImageDescriptor(img.width, img.height, AsSlice(img).len)
           enc == NativeCompress(buf, quality[h])
       IN /\ holder' = [holder EXCEPT ![h] = GuardDropped(t)]
          /\ quality' = [quality EXCEPT ![h] = QualityAfterCompress(quality[h])]
          /\ result' = [result EXCEPT ![t] = IF enc.ok THEN OkBytes(enc.bytes) ELSE FromTurboJpeg]
    /\ pc' = [pc EXCEPT ![t] = "idle"]
    /\ UNCHANGED <<kind, poisoned, lastHeader, op, image_size, pixels>>

\* ---------------------------------------------------------------------
\* ImageEncoder::set_quality
\* ---------------------------------------------------------------------

CallSetQuality(t, h, q) ==
    /\ pc[t] = "idle"
    /\ kind[h] = "enc"
    /\ pc' = [pc EXCEPT ![t] = "sq_lock"]
    /\ op' = [op EXCEPT ![t] = [NoOp EXCEPT !.name = "set_quality", !.h = h, !.q = q]]
    /\ result' = [result EXCEPT ![t] = NoResult]
    /\ UNCHANGED <<kind, holder, poisoned, quality, lastHeader, image_size, pixels>>

\* self.compressor.lock().unwrap()
SqLock(t) ==
    /\ pc[t] = "sq_lock"
    /\ LockFree(op[t].h)
    /\ IF UnwrapPanics(op[t].h)
       THEN /\ pc' = [pc EXCEPT ![t] = "idle"]
            /\ result' = [result EXCEPT ![t] = Panic]
            /\ UNCHANGED holder
       ELSE /\ pc' = [pc EXCEPT ![t] = "sq_native"]
            /\ holder' = [holder EXCEPT ![op[t].h] = t]
            /\ UNCHANGED result
    /\ UNCHANGED <<kind, poisoned, quality, lastHeader, op, image_size, pixels>>

\* Ok(..set_quality(quality)?)
SqNative(t) ==
    /\ pc[t] = "sq_native"
    /\ LET h == op[t].h
       IN /\ holder' = [holder EXCEPT ![h] = GuardDropped(t)]
          /\ IF NativeSetQuality(op[t].q)
             THEN /\ quality' = [quality EXCEPT ![h] = op[t].q]
                  /\ result' = [result EXCEPT ![t] = OkUnit]
             ELSE /\ result' = [result EXCEPT ![t] = FromTurboJpeg]
                  /\ UNCHANGED quality
    /\ pc' = [pc EXCEPT ![t] = "idle"]
    /\ UNCHANGED <<kind, poisoned, lastHeader, op, image_size, pixels>>

\* ---------------------------------------------------------------------
\* A holder of a clone of the public Arc locks the Mutex and unwinds while
\* it holds the guard: the Mutex is poisoned
\* ---------------------------------------------------------------------

PoisonLock(h) ==
    /\ kind[h] # "none"
    /\ LockFree(h)
    /\ ~poisoned[h]
    /\ poisoned' = [poisoned EXCEPT ![h] = TRUE]
    /\ UNCHANGED <<kind, holder, quality, lastHeader, pc, op, image_size, pixels, result>>

\* ---------------------------------------------------------------------
\* Specifications
\* ---------------------------------------------------------------------

Next ==
    \/ \E t \in Threads, k \in {"dec", "enc"}, ok \in BOOLEAN : New(t, k, ok)
    \/ \E t \in Threads, k \in {"dec", "enc"}, ok \in BOOLEAN : Default(t, k, ok)
    \/ \E t \in Threads, h \in Handles, data \in JpegInputs : CallReadHeader(t, h, data)
    \/ \E t \in Threads, h \in Handles, data \in JpegInputs : CallDecode(t, h, data, NoImage)
    \/ \E t \in Threads, h \in Handles : CallDecodeEncoded(t, h)
    \/ \E t \in Threads : RhLock(t)
    \/ \E t \in Threads : RhNative(t)
    \/ \E t \in Threads : DecLock(t)
    \/ \E t \in Threads : DecNative(t)
    \/ \E t \in Threads, h \in Handles, image \in EncodeImages : CallEncode(t, h, image)
    \/ \E t \in Threads, h \in Handles : CallEncodeDecoded(t, h)
    \/ \E t \in Threads : EncLock(t)
    \/ \E t \in Threads : EncNative(t)
    \/ \E t \in Threads, h \in Handles, q \in QualityInputs : CallSetQuality(t, h, q)
    \/ \E t \in Threads : SqLock(t)
    \/ \E t \in Threads : SqNative(t)

Spec == Init /\ [][Next]_vars

\* the program together with a foreign holder that poisons a lock
NextFault == Next \/ \E h \in Handles : PoisonLock(h)

SpecFault == Init /\ [][NextFault]_vars

\* the steps of caller t that take a lock, and those that run a native call
LockStep(t) == RhLock(t) \/ DecLock(t) \/ EncLock(t) \/ SqLock(t)

NativeStep(t) == RhNative(t) \/ DecNative(t) \/ EncNative(t) \/ SqNative(t)

\* fair scheduling: a native call that has started ends, and a caller that
\* finds the lock free again and again gets it
SpecFair ==
    /\ Spec
    /\ \A t \in Threads : WF_vars(NativeStep(t))
    /\ \A t \in Threads : SF_vars(LockStep(t))

TypeOK ==
    /\ kind \in [Handles -> {"none", "dec", "enc"}]
    /\ holder \in [Handles -> Threads \cup {NoThread}]
    /\ poisoned \in [Handles -> BOOLEAN]
    /\ pc \in [Threads -> {"idle"} \cup LockPcs \cup NativePcs]
    /\ \A t \in Threads : result[t].tag \in {"None", "Ok", "Err", "Panic"}
    /\ \A t \in Threads : result[t].tag = "Err" => result[t].err \in JpegErrorKinds

\* ---------------------------------------------------------------------
\* Properties
\* ---------------------------------------------------------------------

\* C1 (as stated): while a decode call is between its header read and its
\* decompress, no other caller is inside a native operation on the same handle.
C1_DecodeSingleCriticalSection ==
    \A t \in Threads, u \in Threads :
        (op[t].name = "decode" /\ pc[t] = "dec_lock" /\ u # t) => ~InNative(u, op[t].h)

\* C1 (amended): a decode call runs its native header read and its native
\* decompress in two critical sections: it holds the handle's lock during each
\* of the two native calls and does not hold it in between.
C1_DecodeTwoCriticalSections ==
    \A t \in Threads :
        op[t].name = "decode" =>
            /\ pc[t] \in {"rh_native", "dec_native"} => holder[op[t].h] = t
            /\ pc[t] \in {"rh_lock", "dec_lock", "idle"} => holder[op[t].h] # t

\* a decode between its two native calls while another caller is inside a
\* native operation on the same handle
C1_Witness ==
    \E t \in Threads, u \in Threads :
        /\ u # t
        /\ op[t].name = "decode"
        /\ pc[t] = "dec_lock"
        /\ InNative(u, op[t].h)

\* C2: for every handle, at most one thread is inside a native codec operation
\* (read_header, decompress, compress_to_vec, set_quality) on it, and that
\* thread is the holder of the handle's lock.
C2_MutualExclusion ==
    \A h \in Handles :
        /\ Cardinality({t \in Threads : InNative(t, h)}) <= 1
        /\ \A t \in Threads : InNative(t, h) => holder[h] = t

\* one thread inside a native operation on a handle another thread waits for
C2_Witness ==
    \E h \in Handles, t \in Threads, u \in Threads :
        /\ u # t
        /\ InNative(t, h)
        /\ pc[u] \in LockPcs
        /\ op[u].h = h

\* C3: encode of an image whose buffer is not contiguous never reaches the
\* native compression routine and returns the error ImageDataNotContiguous.
C3_NonContiguousRejected ==
    \A t \in Threads :
        (op[t].name = "encode" /\ ~op[t].image.contiguous) =>
            /\ pc[t] # "enc_native"
            /\ (pc[t] = "idle" /\ result[t].tag # "None") => result[t] = Err("ImageDataNotContiguous")

C5_PoisonedLockIsFatal ==
    [][/\ \A h \in Handles : poisoned[h] => poisoned'[h]
       /\ \A t \in Threads :
            (pc[t] # "idle" /\ poisoned[op[t].h]) =>
                /\ pc[t] \in LockPcs
                /\ pc'[t] = pc[t] \/ (pc'[t] = "idle" /\ result'[t] = Panic)]_vars

\* a call on a poisoned handle has ended in a panic
C5_Witness ==
    \E t \in Threads, u \in Threads :
        /\ t # u
        /\ op[t].name = "decode"
        /\ op[u].name \in {"encode", "set_quality"}
        /\ poisoned[op[t].h]
        /\ poisoned[op[u].h]
        /\ pc[t] = "idle"
        /\ pc[u] = "idle"
        /\ result[t] = Panic
        /\ result[u] = Panic

C7_HeaderAndDecodeAgree ==
    LET fixture == JpegStream(FixtureWidth, FixtureHeight, DefaultQuality)
        okRH(t) == pc[t] = "idle" /\ op[t].name = "read_header" /\ result[t].tag = "Ok"
        okDec(t) == pc[t] = "idle" /\ op[t].name = "decode" /\ result[t].tag = "Ok"
    IN /\ \A t \in Threads, u \in Threads :
            (okRH(t) /\ okDec(u) /\ op[t].data = op[u].data) =>
                /\ result[u].image.width = result[t].size.width
                /\ result[u].image.height = result[t].size.height
                /\ result[u].image.channels = 3
       /\ \A t \in Threads :
            (okRH(t) /\ op[t].data = fixture) => result[t].size = ImageSize(258, 195)
       /\ \A t \in Threads :
            (okDec(t) /\ op[t].data = fixture) =>
                /\ result[t].image.width = 258
                /\ result[t].image.height = 195
                /\ result[t].image.channels = 3

\* read_header and decode have both succeeded on the fixture
C7_Witness ==
    \E t \in Threads, u \in Threads :
        /\ pc[t] = "idle"
        /\ op[t].name = "read_header"
        /\ result[t].tag = "Ok"
        /\ pc[u] = "idle"
        /\ op[u].name = "decode"
        /\ result[u].tag = "Ok"
        /\ op[t].data = op[u].data
        /\ op[t].data = JpegStream(FixtureWidth, FixtureHeight, DefaultQuality)

C12_DecodeHistoryIndependent ==
    \A t \in Threads, u \in Threads :
        (pc[t] = "idle" /\ op[t].name = "decode" /\ result[t].tag # "None"
         /\ pc[u] = "idle" /\ op[u].name = "decode" /\ result[u].tag # "None"
         /\ op[t].data = op[u].data) =>
            result[t] = result[u]

\* two decodes of the same bytes have returned on one handle, so that one of
\* them had the other in its history
C12_Witness ==
    \E t \in Threads, u \in Threads :
        /\ t # u
        /\ pc[t] = "idle"
        /\ pc[u] = "idle"
        /\ op[t].name = "decode"
        /\ op[u].name = "decode"
        /\ op[t].data = op[u].data
        /\ op[t].h = op[u].h
        /\ result[t].tag = "Ok"
        /\ result[u].tag = "Ok"
        /\ lastHeader[op[t].h] = ImageSize(result[t].image.width, result[t].image.height)

\* C13: handles share no state.  A caller waiting for the lock of a handle
\* that nobody holds can take it, whatever is in progress on other handles; the
\* lock, the poison flag, the quality setting and the native state of a handle
\* change only in a step of a caller working on that handle; and a decode
\* returns what the same decode returns when it runs alone.
C13_HandlesIndependent ==
    /\ [](\A t \in Threads :
            (pc[t] \in LockPcs /\ holder[op[t].h] = NoThread) =>
                ENABLED (RhLock(t) \/ DecLock(t) \/ EncLock(t) \/ SqLock(t)))
    /\ [](\A t \in Threads :
            (pc[t] = "idle" /\ op[t].name = "decode" /\ result[t].tag # "None") =>
                LET hdr == NativeReadHeader(op[t].data)
                    size == HeaderSize(hdr)
                    px == AllocPixels(size)
                    buf == ImageDescriptor(size.width, size.height, px.len)
                IN result[t] = IF ~hdr.ok THEN FromTurboJpeg
                               ELSE DecodeReturn(NativeDecompress(op[t].data, buf), size, px))
    /\ [][\A g \in Handles :
            (\/ holder'[g] # holder[g]
             \/ poisoned'[g] # poisoned[g]
             \/ quality'[g] # quality[g]
             \/ lastHeader'[g] # lastHeader[g]
             \/ kind'[g] # kind[g]) =>
                \E t \in Threads :
                    /\ <<pc[t], result[t], op[t]>> # <<pc'[t], result'[t], op'[t]>>
                    /\ \/ pc[t] # "idle" /\ op[t].h = g
                       \/ pc[t] = "idle" /\ kind[g] = "none" /\ result'[t] = OkHandle(g)]_vars

\* two callers are inside decompress at the same time, each on its own decoder
C13_Witness ==
    \E t \in Threads, u \in Threads :
        /\ t # u
        /\ pc[t] = "dec_native"
        /\ pc[u] = "dec_native"
        /\ op[t].h # op[u].h
        /\ holder[op[t].h] = t
        /\ holder[op[u].h] = u

C15_BufferMatchesHeader ==
    \A t \in Threads :
        /\ pc[t] = "dec_native" =>
                LET hdr == NativeReadHeader(op[t].data)
                    buf == ImageDescriptor(image_size[t].width, image_size[t].height, pixels[t].len)
                IN /\ hdr.ok
                   /\ image_size[t] = ImageSize(hdr.width, hdr.height)
                   /\ pixels[t].len = hdr.width * hdr.height * 3
                   /\ buf.len = buf.pitch * buf.height
                   /\ buf.pitch = 3 * hdr.width
                   /\ ImageNew(image_size[t], pixels[t]).ok
        /\ (pc[t] = "idle" /\ op[t].name = "decode") => result[t] # Err("ImageCreationError")

\* a decode of the fixture is inside decompress with its buffer of 258 * 195 * 3 bytes
C15_Witness ==
    \E t \in Threads :
        /\ pc[t] = "dec_native"
        /\ image_size[t] = ImageSize(FixtureWidth, FixtureHeight)
        /\ pixels[t].len = 150930

====
